---- MODULE Spec2Model ----
(***************************************************************************)
(* State-machine model of src/app.py: a Streamlit script that opens an     *)
(* RTSP stream (run_camera), keeps the newest decoded frame in             *)
(* st.session_state.frame, and uploads that frame on a Capture click.      *)
(*                                                                         *)
(* Execution model.  Streamlit runs the script top to bottom once per      *)
(* interaction; st.session_state survives between runs, everything else    *)
(* (placeholders, the locals of run_camera) is rebuilt.  A widget event    *)
(* that arrives while a run is in progress is delivered at that run's next *)
(* st.* call: the run is abandoned there and the script starts again with  *)
(* the widget's value.  st.rerun() abandons the run and starts the script  *)
(* again with no button pressed.  The variable pc is the position of the   *)
(* current run; YieldPoints are the positions that sit on an st.* call.    *)
(* A run that is inside a blocking call (the open, a read, the upload)     *)
(* takes no event before the call has returned: the event waits for the    *)
(* run's next st.* call.  The script has no lock and no busy flag of its   *)
(* own; that runs do not overlap is the runtime's doing.                   *)
(***************************************************************************)
EXTENDS Naturals, FiniteSets, Sequences, TLC

\* ---- bounds of the model
MaxFrames == 2      \* frames the source delivers (frame ids 1..MaxFrames)
MaxSessions == 2    \* presses of Start
MaxCaptures == 2    \* presses of Capture
MaxClock == 2       \* latest reading of the wall clock, in ticks

\* ---- program constants
Threshold == 50     \* line 306: frame_count > 50
JpegQuality == 85   \* line 242: cv2.IMWRITE_JPEG_QUALITY, 85
NoFrame == 0        \* line 33: st.session_state.frame = None
TicksPerSecond == 2 \* line 248: int() drops the sub-second part of time.time()

NoUrl == "None"     \* line 35: st.session_state.last_url = None
RemoteUrls == {"url_a", "url_b"}     \* values of result['secure_url']
UploadError == "error"               \* the upload call raised
NoReply == "none"                    \* no upload call has returned in this run

\* ---- RTSP URLs, by the features validate_and_fix_rtsp looks at:
\*   sp: a space in the credentials,
\*   dc: the number of colons between "@" and the IP address,
\*   pw: the password is plain, has special characters, or is %-encoded.
DefaultUrl == [sp |-> FALSE, dc |-> 0, pw |-> "plain"]
MalformedUrl == [sp |-> TRUE, dc |-> 2, pw |-> "special"]
Inputs == {DefaultUrl, MalformedUrl}

\* lines 42-93.  url.replace('@:', '@') takes one colon away (line 62); the
\* IP address is looked for right after "@" in the result (lines 69-71).
validate_and_fix_rtsp(u) ==
    LET colons == IF u.dc > 0 THEN u.dc - 1 ELSE 0
        fixed == [sp |-> FALSE, dc |-> colons,
                  pw |-> IF u.pw = "special" THEN "encoded" ELSE u.pw]
        errors == (IF u.sp THEN <<"spaces">> ELSE <<>>)
                  \o (IF u.dc > 0 THEN <<"double_colon">> ELSE <<>>)
                  \o (IF colons > 0 THEN <<"no_ip">> ELSE <<>>)
                  \o (IF u.pw = "special" THEN <<"encoded">> ELSE <<>>)
    IN [url |-> fixed, errors |-> errors, changed |-> (fixed # u)]

\* The run takes the URL that is in the text input now.
SessionUrlFromInput(w, input) == input

\* line 266: st.session_state.get('working_url', rtsp_input).
SessionUrl(w, input) == IF w # <<>> THEN w[1] ELSE input

VARIABLES
    \* st.session_state
    camera_active, frame, last_url, error_log, working_url, fixed_url,
    \* the page's widgets: the RTSP URL text input; whether the button drawn
    \* by lines 216-227 is Stop (TRUE) or Start (FALSE); whether Capture was
    \* drawn enabled the last time line 238 ran
    rtsp_input, stop_drawn, capture_enabled,
    \* the current script run: position and the locals of run_camera
    pc, cap, url, frame_count, ret, fr,
    \* the URL the last cv2.VideoCapture call of this run was given (lines
    \* 116, 273, 309)
    opened,
    \* the locals of the Capture handler: the payload given to the upload
    \* call (img_bytes) and what the call answered (result)
    lastPayload, reply,
    \* what the page shows: status_placeholder, frame_placeholder, and the
    \* st.success / st.error message of the Capture handler
    status, shown, notice,
    \* time.time() as last read, in ticks; public_id of the last upload call
    now, public_id,
    \* an abandoned run's handle is still open (not yet reclaimed)
    orphan,
    \* history variables: frames decoded, presses of Start, the session
    \* that decoded the stored frame, failed reads in a row, presses of
    \* Capture, upload calls made and not yet returned
    decoded, session, frameSession, streak, captures, inflight,
    stoppedInLoop,
    \* a Capture handler has run and the script has not been back in the
    \* read loop since (nor has the user done anything else)
    resuming

pageVars == <<rtsp_input, stop_drawn, capture_enabled>>
sessionVars == <<camera_active, frame, last_url, error_log, working_url,
                 fixed_url>>
runVars == <<pc, cap, url, frame_count, ret, fr, opened>>
uiVars == <<status, shown, notice>>
clockVars == <<now, public_id>>
uploadVars == <<lastPayload, reply>>
histVars == <<decoded, session, frameSession, streak, captures, inflight,
              stoppedInLoop, resuming, clockVars>>
histVars_but_streak == <<decoded, session, frameSession, captures, inflight,
                         stoppedInLoop, resuming, clockVars>>
vars == <<sessionVars, pageVars, runVars, uploadVars, uiVars, orphan,
          histVars>>

\* The positions of a run that sit on an st.* call, where a widget event
\* is delivered:
\*   "rerun"    st.rerun() was called (lines 160, 203, 225, 229, 256, 294):
\*              an event is taken by the first st.* call of the next run
\*   "top"      the calls of lines 130-211, above the Start/Stop branch
\*   "draw"     the calls of lines 218-238: Start or Stop is drawn, the
\*              Capture button not yet
\*   "spinner"  st.spinner of the Capture handler (240)
\*   "message"  st.success / st.error of the Capture handler (253, 255)
\*   "connect"  the calls of lines 260-262 and 271
\*   "check"    status_placeholder.error / .success (276, 297)
\*   "warn"     status_placeholder.warning (307)
\*   "show"     frame_placeholder.image (316)
\*   "stopping" status_placeholder.info after the loop (320)
\*   "idle"     lines 326-327 and the script at rest.
\* (Lines 289 and 291 are inside the try of line 283, whose bare except
\* catches whatever the call raises; the run goes on to the st.rerun() of
\* line 294, position "rerun".)
YieldPoints ==
    {"idle", "rerun", "top", "draw", "spinner", "connect", "check", "warn",
     "show", "stopping", "message"}

\* positions inside the body of the Capture handler (lines 240-255)
InHandler == {"spinner", "capturing", "message"}

\* positions inside the reconnect branch of lines 307-310
ReconnectBranch == {"warn", "release", "reopen", "reset"}

\* positions inside the while loop of lines 301-317
InLoop == {"loop", "show"} \cup ReconnectBranch

NoPayload == [fmt |-> "none", quality |-> 0, img |-> NoFrame]

Init ==
    /\ camera_active = FALSE
    /\ frame = NoFrame
    /\ last_url = NoUrl
    /\ error_log = <<>>
    /\ working_url = <<>>
    /\ fixed_url = <<>>
    /\ rtsp_input = DefaultUrl
    /\ stop_drawn = FALSE
    /\ capture_enabled = FALSE
    /\ pc = "idle"
    /\ cap = "none"
    /\ url = <<>>
    /\ opened = <<>>
    /\ frame_count = 0
    /\ ret = FALSE
    /\ fr = NoFrame
    /\ status = "empty"
    /\ shown = NoFrame
    /\ notice = "none"
    /\ now = 0
    /\ public_id = <<>>
    /\ inflight = 0
    /\ orphan = FALSE
    /\ decoded = 0
    /\ session = 0
    /\ frameSession = 0
    /\ streak = 0
    /\ captures = 0
    /\ lastPayload = NoPayload
    /\ reply = NoReply
    /\ stoppedInLoop = FALSE
    /\ resuming = FALSE

\* ------------------------------------------------------------------------
\* The top of the script (lines 130-262) and its dispatch (lines 322-323)
\* ------------------------------------------------------------------------

\* A new run of the script: the placeholders are created empty (lines
\* 210-211) and the previous run's locals are gone.  A handle the previous
\* run left open is abandoned without cap.release().
ScriptTop ==
    /\ orphan' = (orphan \/ cap = "open")
    /\ cap' = "none"
    /\ url' = <<>>
    /\ frame_count' = 0
    /\ ret' = FALSE
    /\ fr' = NoFrame
    /\ streak' = 0
    /\ status' = "empty"
    /\ shown' = NoFrame
    /\ notice' = "none"
    /\ reply' = NoReply

\* lines 322-323: run_camera is entered iff the session is active.
Dispatch(active) == IF active THEN "connect" ELSE "idle"

\* The handler does not look whether a frame is stored.
HasFrameAlways(f) == TRUE

\* line 239: a capture needs a frame.
HasFrame(f) == f # NoFrame

\* The payload is made from the image on the page, not from the stored
\* frame.
EncodeShown(f) == [fmt |-> "jpg", quality |-> JpegQuality, img |-> shown]

\* lines 242-243: the JPEG payload of a frame.
Encode(f) == [fmt |-> "jpg", quality |-> JpegQuality, img |-> f]

\* lines 245-255: last_url after the upload call answered r.
RecordUrl(old, r) == IF r = UploadError THEN old ELSE r

\* A run started by a widget event whose handler (if it has one) does not
\* end the run: the part common to the runs of EditUrl, ValidateFix and
\* TestConnection.  The run is among the st.* calls of lines 130-211; the
\* buttons of lines 218-238 are still as the run before drew them.
EnterTop ==
    /\ ScriptTop
    /\ pc' = "top"
    /\ resuming' = FALSE
    /\ lastPayload' = NoPayload
    /\ UNCHANGED <<camera_active, frame, last_url, error_log, working_url,
                   stop_drawn, capture_enabled, decoded, session,
                   frameSession, captures, inflight, stoppedInLoop,
                   clockVars>>

\* A run that ends in an st.rerun() before line 216: the part common to the
\* runs of UseFixed and ApplyFixes.  Nothing on the page below is redrawn.
TopToRerun ==
    /\ ScriptTop
    /\ opened' = <<>>
    /\ pc' = "rerun"
    /\ resuming' = FALSE
    /\ lastPayload' = NoPayload
    /\ UNCHANGED <<camera_active, frame, last_url, error_log, working_url,
                   pageVars, decoded, session, frameSession, captures,
                   inflight, stoppedInLoop, clockVars>>

\* lines 137-143: the user edits the URL text, which runs the script again
\* with no handler.  (So does an event that changes nothing: the text left
\* as it is, a press of Start or Stop when line 216 takes the other branch,
\* a press of a button whose handler the run does not reach because a
\* further event is delivered first.)
EditUrl ==
    /\ pc \in YieldPoints
    /\ \E u \in Inputs : rtsp_input' = u
    /\ EnterTop
    /\ opened' = <<>>
    /\ UNCHANGED fixed_url

\* lines 145-152: "Validate & Fix URL" keeps the fixed URL in fixed_url when
\* fixing changed the input (line 149), and shows its message (150, 152).
ValidateFix ==
    /\ pc \in YieldPoints
    /\ LET r == validate_and_fix_rtsp(rtsp_input)
       IN fixed_url' = IF r.changed THEN <<r.url>> ELSE fixed_url
    /\ EnterTop
    /\ opened' = <<>>
    /\ UNCHANGED rtsp_input

\* lines 155-160: "Use Fixed URL" is drawn while fixed_url is set; it
\* assigns the local rtsp_input, clears fixed_url and calls st.rerun(),
\* which leaves the text input as it was.
UseFixed ==
    /\ pc \in YieldPoints
    /\ fixed_url # <<>>
    /\ fixed_url' = <<>>
    /\ TopToRerun

\* lines 95-127: the URL has something other than ":" or "/" right after
\* "@" (line 99), so test_rtsp_connection goes on to its socket probe.
Parses(u) == u.dc = 0

\* lines 182-189 and 95-127: "Test Connection to Current URL".  With the
\* text input as it is (not fixed, not the session's URL): when it parses
\* and the socket probe answers, the source is opened with it, one read is
\* made and the handle is released (lines 116-119); the frame read is
\* dropped.  The run then shows the outcome (186, 188).
TestConnection ==
    /\ pc \in YieldPoints
    /\ EnterTop
    /\ \E probe \in BOOLEAN :
          opened' = IF Parses(rtsp_input) /\ probe THEN <<rtsp_input>>
                    ELSE <<>>
    /\ UNCHANGED <<rtsp_input, fixed_url>>

\* lines 195-203: "Apply Fixes" is drawn while the fixer reports something
\* about the input; it assigns the local rtsp_input and calls st.rerun(),
\* which leaves the text input as it was.
ApplyFixes ==
    /\ pc \in YieldPoints
    /\ validate_and_fix_rtsp(rtsp_input).errors # <<>>
    /\ TopToRerun
    /\ UNCHANGED fixed_url

\* lines 216-225: Start is pressed on a page that shows it, and its handler
\* runs only if line 216 finds the session inactive.
Start ==
    /\ pc \in YieldPoints
    /\ ~stop_drawn
    /\ ~camera_active
    /\ session < MaxSessions
    /\ LET r == validate_and_fix_rtsp(rtsp_input)
       IN /\ error_log' = IF r.errors # <<>> THEN r.errors ELSE error_log
          /\ working_url' = <<r.url>>
    /\ camera_active' = TRUE
    /\ ScriptTop
    /\ opened' = <<>>
    /\ pc' = "rerun"
    /\ session' = session + 1
    /\ stoppedInLoop' = FALSE
    /\ resuming' = FALSE
    /\ lastPayload' = NoPayload
    /\ UNCHANGED <<frame, last_url, fixed_url, pageVars, decoded,
                   frameSession, captures, inflight, clockVars>>

\* lines 216 and 226-229: Stop is pressed on a page that shows it, and its
\* handler runs only if line 216 finds the session active.
Stop ==
    /\ pc \in YieldPoints
    /\ stop_drawn
    /\ camera_active
    /\ camera_active' = FALSE
    /\ ScriptTop
    /\ opened' = <<>>
    /\ pc' = "rerun"
    /\ stoppedInLoop' = (pc \in InLoop)
    /\ resuming' = FALSE
    /\ lastPayload' = NoPayload
    /\ UNCHANGED <<frame, last_url, error_log, working_url, fixed_url,
                   pageVars, decoded, session, frameSession, captures,
                   inflight, clockVars>>

\* The run of a press of Capture up to line 238.  The press can be made
\* only on a page that drew the button enabled (disabled=not camera_active
\* when line 238 last ran); the handler itself does not test camera_active.
\* The run draws Start or Stop on its way and the Capture button as it is
\* now.  (A further event delivered to this run before line 238 leaves the
\* press unhandled: that is the further event's own action, taken from the
\* state the press was made in or from "draw" after an EditUrl that changes
\* nothing.)
CapturePressed ==
    /\ pc \in YieldPoints
    /\ capture_enabled
    /\ captures < MaxCaptures
    /\ ScriptTop
    /\ opened' = <<>>
    /\ stop_drawn' = camera_active
    /\ capture_enabled' = camera_active
    /\ captures' = captures + 1
    /\ lastPayload' = NoPayload
    /\ UNCHANGED <<sessionVars, rtsp_input, decoded, session, frameSession,
                   inflight, stoppedInLoop, clockVars>>

\* lines 238-239: Capture pressed with no frame stored: the handler body is
\* skipped and the script goes on to line 322.
CaptureNoFrame ==
    /\ CapturePressed
    /\ ~HasFrame(frame)
    /\ pc' = Dispatch(camera_active)
    /\ resuming' = FALSE

\* lines 238-240: Capture pressed with a frame stored: the handler body is
\* entered and comes to its st.spinner call.
CaptureSpinner ==
    /\ CapturePressed
    /\ HasFrame(frame)
    /\ pc' = "spinner"
    /\ resuming' = TRUE

\* line 248: public_id = f"v380_{int(time.time())}" at clock reading t.
PublicId(t) == [prefix |-> "v380", sec |-> t \div TicksPerSecond]

\* lines 253 and 255: the handler shows "Uploaded!" when the try block came
\* to its end with the answer r, "Upload failed" when it did not.
Notice(r) == IF r \in RemoteUrls THEN "uploaded" ELSE "upload_failed"

\* lines 241-243 and 254: cv2.imencode or io.BytesIO raises: the except
\* clause catches it, no upload call is made, and the handler goes on to
\* its message.
CaptureEncodeFailed ==
    /\ pc = "spinner"
    /\ pc' = "message"
    /\ UNCHANGED <<sessionVars, pageVars, cap, url, opened, frame_count,
                   ret, fr, uiVars, orphan, uploadVars, histVars>>

\* lines 241-250: encode the stored frame, read the clock for the
\* public_id, and call the upload collaborator.  The call blocks the run.
CaptureUpload ==
    /\ pc = "spinner"
    /\ lastPayload' = Encode(frame)
    /\ \E t \in now..MaxClock :
          /\ now' = t
          /\ public_id' = <<PublicId(t)>>
    /\ inflight' = inflight + 1
    /\ pc' = "capturing"
    /\ UNCHANGED <<sessionVars, pageVars, cap, url, opened, frame_count,
                   ret, fr, uiVars, orphan, reply, decoded, session,
                   frameSession, streak, captures, stoppedInLoop,
                   resuming>>

\* lines 245-252 and 254: the upload call returns a URL, which is recorded,
\* or raises, which the except clause catches; either way the handler goes
\* on to show its message.
UploadReturn ==
    /\ pc = "capturing"
    /\ \E r \in RemoteUrls \cup {UploadError} :
          /\ reply' = r
          /\ last_url' = RecordUrl(last_url, r)
    /\ pc' = "message"
    /\ inflight' = inflight - 1
    /\ UNCHANGED <<camera_active, frame, error_log, working_url, fixed_url,
                   pageVars, cap, url, opened, frame_count, ret, fr, uiVars,
                   orphan, lastPayload, decoded, session, frameSession,
                   streak, captures, stoppedInLoop, resuming,
                   clockVars>>

\* lines 253 or 255, and 256: show the message, then st.rerun().
ShowMessage ==
    /\ pc = "message"
    /\ notice' = Notice(reply)
    /\ pc' = "rerun"
    /\ UNCHANGED <<sessionVars, pageVars, cap, url, opened, frame_count,
                   ret, fr, status, shown, orphan, uploadVars, histVars>>

\* st.rerun() (lines 160, 203, 225, 229, 256, 294): the script runs again
\* with no button pressed and comes to the st.* calls of lines 130-211.
Rerun ==
    /\ pc = "rerun"
    /\ ScriptTop
    /\ opened' = <<>>
    /\ pc' = "top"
    /\ lastPayload' = NoPayload
    /\ UNCHANGED <<sessionVars, pageVars, histVars_but_streak>>

\* lines 216-236: no press of Start or Stop to handle: the branch of line
\* 216 draws Start (218) or Stop (227), and the script comes to the Capture
\* button's call (238).
DrawStartStop ==
    /\ pc = "top"
    /\ stop_drawn' = camera_active
    /\ pc' = "draw"
    /\ UNCHANGED <<sessionVars, rtsp_input, capture_enabled, cap, url,
                   opened, frame_count, ret, fr, uiVars, orphan, uploadVars,
                   histVars>>

\* lines 238 and 322-323: no press of Capture to handle: the button is drawn
\* (disabled=not camera_active) and the script goes on to its dispatch.
DrawCapture ==
    /\ pc = "draw"
    /\ capture_enabled' = camera_active
    /\ pc' = Dispatch(camera_active)
    /\ UNCHANGED <<sessionVars, rtsp_input, stop_drawn, cap, url, opened,
                   frame_count, ret, fr, uiVars, orphan, uploadVars,
                   histVars>>

\* ------------------------------------------------------------------------
\* run_camera (lines 265-320)
\* ------------------------------------------------------------------------

\* cv2.VideoCapture(url): the handle is opened or it is not.
OpenSource(ok) == IF ok THEN "open" ELSE "closed"

\* lines 266-273: pick the session's URL, fix it again, publish
\* "Connecting", open the source.
Connect ==
    /\ pc = "connect"
    /\ LET u == SessionUrl(working_url, rtsp_input)
       IN /\ url' = <<validate_and_fix_rtsp(u).url>>
          /\ opened' = <<validate_and_fix_rtsp(u).url>>
    /\ status' = "connecting"
    /\ \E ok \in BOOLEAN : cap' = OpenSource(ok)
    /\ pc' = "check"
    /\ UNCHANGED <<sessionVars, pageVars, frame_count, ret, fr, shown,
                   notice, orphan, uploadVars,
                   histVars>>

\* lines 275-295: the handle did not open: publish the failure, mark the
\* session inactive, st.rerun().  (The socket probe of lines 280-293 only
\* chooses the text of a message.)
OpenFailed ==
    /\ pc = "check"
    /\ cap # "open"
    /\ status' = "failed"
    /\ camera_active' = FALSE
    /\ pc' = "rerun"
    /\ UNCHANGED <<frame, last_url, error_log, working_url, fixed_url,
                   pageVars, cap, url, opened, frame_count, ret, fr, shown,
                   notice, orphan, uploadVars, histVars>>

\* lines 297-300: the handle opened.
Connected ==
    /\ pc = "check"
    /\ cap = "open"
    /\ status' = "connected"
    /\ error_log' = <<>>
    /\ frame_count' = 0
    /\ pc' = "loop"
    /\ resuming' = FALSE
    /\ UNCHANGED <<camera_active, frame, last_url, working_url, fixed_url,
                   pageVars,
                   cap, url, opened, ret, fr, shown, notice, orphan,
                   uploadVars, decoded, session, frameSession, streak, captures,
                   inflight, stoppedInLoop, clockVars>>

\* A reconnect already when the count reaches the threshold.
ExceedsThresholdEarly(n) == n >= Threshold

\* line 306: frame_count > 50.
ExceedsThreshold(n) == n > Threshold

\* lines 302-306 and 311: cap.read() delivers nothing (it never does on a
\* handle that is not open); the failure is counted, and past the threshold
\* the run goes on to the reconnect of lines 307-310.  (time.sleep is not
\* an st.* call: no widget event is delivered here.)
ReadFailed ==
    /\ ret' = FALSE
    /\ fr' = NoFrame
    /\ frame_count' = frame_count + 1
    /\ streak' = streak + 1
    /\ pc' = IF ExceedsThreshold(frame_count + 1) THEN "warn" ELSE "loop"
    /\ UNCHANGED <<sessionVars, pageVars, cap, url, opened, status,
                   shown, notice, orphan, uploadVars, histVars_but_streak>>

\* line 307: publish "retrying".
ReconnectWarn ==
    /\ pc = "warn"
    /\ status' = "retrying"
    /\ pc' = "release"
    /\ UNCHANGED <<sessionVars, pageVars, cap, url, opened, frame_count,
                   ret, fr, shown, notice, orphan, uploadVars, histVars>>

\* The old handle is left as it is.
ReconnectReleaseSkipped ==
    /\ pc = "release"
    /\ pc' = "reopen"
    /\ UNCHANGED <<sessionVars, pageVars, cap, url, opened, frame_count,
                   ret, fr, uiVars, orphan, uploadVars, histVars>>

\* line 308: cap.release().
ReconnectRelease ==
    /\ pc = "release"
    /\ cap' = "closed"
    /\ pc' = "reopen"
    /\ UNCHANGED <<sessionVars, pageVars, url, opened, frame_count, ret,
                   fr, uiVars, orphan, uploadVars, histVars>>

\* line 309: cap = cv2.VideoCapture(url), with the run's url.
ReconnectReopen ==
    /\ pc = "reopen"
    /\ opened' = url
    /\ \E ok \in BOOLEAN : cap' = OpenSource(ok)
    /\ pc' = "reset"
    /\ UNCHANGED <<sessionVars, pageVars, url, frame_count, ret, fr,
                   uiVars, orphan, uploadVars, histVars>>

\* lines 310-311: frame_count = 0; continue.
ReconnectReset ==
    /\ pc = "reset"
    /\ frame_count' = 0
    /\ streak' = 0
    /\ pc' = "loop"
    /\ UNCHANGED <<sessionVars, pageVars, cap, url, opened, ret, fr,
                   uiVars, orphan, uploadVars, histVars_but_streak>>

\* The count is left as it was after a successful read.
KeepCount(n) == n

\* line 313: frame_count = 0.
ResetCount(n) == 0

\* The stored frame is not replaced.
KeepFrame(old, new) == old

\* line 314: st.session_state.frame = frame.copy().
StoreFrame(old, new) == new

\* lines 302 and 313-314: cap.read() on the open handle delivers the
\* source's next frame (frames are numbered 1, 2, ... in decode order);
\* the count is reset and the stored frame replaced.
ReadOk ==
    /\ cap = "open"
    /\ decoded < MaxFrames
    /\ ret' = TRUE
    /\ fr' = decoded + 1
    /\ decoded' = decoded + 1
    /\ frame_count' = ResetCount(frame_count)
    /\ streak' = 0
    /\ frame' = StoreFrame(frame, decoded + 1)
    /\ frameSession' = session
    /\ pc' = "show"
    /\ UNCHANGED <<camera_active, last_url, error_log, working_url,
                   fixed_url, pageVars, cap, url, opened, status, shown, notice,
                   orphan, session, captures, inflight, uploadVars,
                   stoppedInLoop, resuming, clockVars>>

\* line 319: the loop's test found the session inactive: cap.release(), and
\* the run comes to the status call of line 320.
LoopExit ==
    /\ cap' = "closed"
    /\ pc' = "stopping"
    /\ UNCHANGED <<sessionVars, pageVars, url, opened, frame_count, ret,
                   fr, uiVars, orphan, uploadVars, histVars>>

\* lines 320-327: publish "Stopped"; the script goes on to its end.
PublishStopped ==
    /\ status' = "stopped"
    /\ pc' = "idle"
    /\ UNCHANGED <<sessionVars, pageVars, cap, url, opened, frame_count,
                   ret, fr, shown, notice, orphan, uploadVars, histVars>>

\* lines 301-314 and 319-320: the loop's test, and then one read, which
\* fails or delivers a frame, or the exit from the loop: the release, and
\* after it the publication of "Stopped".  (camera_active is set to FALSE
\* only by Stop and OpenFailed, neither of which leaves a run inside the
\* loop, so no reachable state takes the exit.)
LoopTest ==
    /\ pc \in {"loop", "stopping"}
    /\ IF pc = "stopping" THEN PublishStopped
       ELSE IF camera_active THEN ReadFailed \/ ReadOk ELSE LoopExit

\* lines 315-317: show the frame, sleep.
Show ==
    /\ pc = "show"
    /\ shown' = fr
    /\ pc' = "loop"
    /\ UNCHANGED <<sessionVars, pageVars, cap, url, opened, frame_count,
                   ret, fr, status, notice, orphan, uploadVars, histVars>>

\* The runtime reclaims a handle an abandoned run left open; when it does
\* so is not decided by the script.
Reclaim ==
    /\ orphan
    /\ orphan' = FALSE
    /\ UNCHANGED <<sessionVars, pageVars, runVars, uploadVars, uiVars,
                   histVars>>

UserEvent ==
    \/ EditUrl \/ ValidateFix \/ UseFixed \/ TestConnection \/ ApplyFixes
    \/ Start \/ Stop
    \/ CaptureNoFrame \/ CaptureSpinner

ScriptStep ==
    \/ CaptureEncodeFailed \/ CaptureUpload \/ UploadReturn \/ ShowMessage
    \/ Rerun \/ DrawStartStop \/ DrawCapture
    \/ Connect \/ OpenFailed \/ Connected \/ LoopTest \/ Show
    \/ ReconnectWarn \/ ReconnectRelease \/ ReconnectReopen \/ ReconnectReset

Next ==
    \/ EditUrl \/ ValidateFix \/ UseFixed \/ TestConnection \/ ApplyFixes
    \/ Start \/ Stop
    \/ CaptureNoFrame \/ CaptureSpinner
    \/ CaptureEncodeFailed \/ CaptureUpload \/ UploadReturn \/ ShowMessage
    \/ Rerun \/ DrawStartStop \/ DrawCapture
    \/ Connect \/ OpenFailed \/ Connected \/ LoopTest \/ Show
    \/ ReconnectWarn \/ ReconnectRelease \/ ReconnectReopen \/ ReconnectReset
    \/ Reclaim

Spec == Init /\ [][Next]_vars

\* The script thread keeps running: a step of the current run that stays
\* possible is eventually taken.  Nothing obliges the user to act.
FairSpec == Init /\ [][Next]_vars /\ WF_vars(ScriptStep)

\* ------------------------------------------------------------------------
\* Claims
\* ------------------------------------------------------------------------

\* C1 (as claimed): once the open has failed (the run sits at line 275 with
\* a handle that is not open), the run goes on only with the session marked
\* inactive and with no frame decoded or stored.
C1Claim ==
    [][(pc = "check" /\ cap = "closed" /\ pc' # "check")
          => (~camera_active' /\ frame' = frame /\ decoded' = decoded)]_vars

\* C2 (as claimed): in every run in which, from some point on, reads keep
\* failing and the user does nothing more, the session ends up inactive (it
\* gives up reconnecting).
C2Claim ==
    ((<>[](pc # "show")) /\ (<>[][~UserEvent]_vars)) => <>[](~camera_active)

\* C3 (as claimed): inside the loop the session is active, the count equals
\* the number of consecutive failed reads, and the reconnect branch is
\* entered as soon as that number has reached the threshold.
C3Claim ==
    pc \in InLoop =>
        /\ camera_active
        /\ frame_count = streak
        /\ (streak >= Threshold <=> pc \in ReconnectBranch)

\* C3 (amended): inside the loop the session is active and the count equals
\* the number of consecutive failed reads since the last successful read or
\* reconnect; with up to Threshold failures the loop just continues, on the
\* same handle state it had, and the reconnect branch is entered exactly
\* when the count exceeds the threshold (failure Threshold + 1); at the top
\* of an iteration the count is within 0..Threshold.
C3Amended ==
    pc \in InLoop =>
        /\ camera_active
        /\ frame_count = streak
        /\ (pc \in ReconnectBranch <=> streak = Threshold + 1)
        /\ (pc = "loop" => streak \in 0..Threshold)
        /\ (pc = "show" => streak = 0)

\* Threshold failed reads in a row, and the loop is at its top, not in the
\* reconnect branch.
C3Witness == pc = "loop" /\ streak = Threshold /\ frame_count = Threshold

\* C4: the stored frame is always the most recently decoded frame (none
\* before the first decode), and right after a successful read the count is
\* 0 and the stored frame is the frame that read returned.
C4Theorem ==
    /\ decoded = 0 => frame = NoFrame
    /\ decoded > 0 => frame = decoded
    /\ pc = "show" => (ret /\ frame_count = 0 /\ frame = fr)

\* A second frame has just been read after a capture was serviced.
C4Witness == pc = "show" /\ decoded = 2 /\ frame = 2 /\ public_id # <<>>

\* C5: a Capture click while no frame is stored does not enter the body of
\* the handler: it makes no upload call, prepares no payload and leaves
\* last_url as it was; an upload call is made only with a frame stored.
C5Theorem ==
    /\ [](pc \in InHandler => frame # NoFrame)
    /\ [][/\ ((captures' = captures + 1 /\ frame = NoFrame)
                => (inflight' = inflight /\ lastPayload' = lastPayload
                    /\ last_url' = last_url /\ pc' \notin InHandler))
          /\ (inflight' = inflight + 1 => frame # NoFrame)]_vars

\* A Capture click was handled with no frame stored.
C5Witness ==
    captures >= 1 /\ camera_active /\ frame = NoFrame /\ public_id = <<>>

\* C6 (as claimed): a Capture click that enters the handler with a frame of
\* the session stored makes, unless its encode raises, one upload call whose
\* payload is the JPEG of the latest decoded frame, and the handler leaves
\* that call only with the call's answer, a returned URL being recorded in
\* last_url.
C6Claim ==
    [][/\ ((pc = "spinner" /\ frameSession = session /\ pc' # "spinner")
             => \/ /\ pc' = "capturing"
                   /\ inflight' = inflight + 1
                   /\ lastPayload'.fmt = "jpg"
                   /\ lastPayload'.img = decoded
                \/ /\ pc' = "message"
                   /\ inflight' = inflight
                   /\ reply' = NoReply)
       /\ ((pc = "capturing" /\ pc' # "capturing")
             => /\ pc' = "message"
                /\ inflight' = inflight - 1
                /\ lastPayload' = lastPayload
                /\ reply' \in RemoteUrls \cup {UploadError}
                /\ (reply' \in RemoteUrls => last_url' = reply'))]_vars

\* C7 (as claimed): after a capture whose encode or upload call failed, the
\* recorded result does not show the URL of an earlier upload.
C7Claim ==
    [][(pc # "message" /\ pc' = "message" /\ reply' \notin RemoteUrls)
          => last_url' \notin RemoteUrls]_vars

\* C8 (as claimed): every upload carries a frame decoded since the session
\* was last activated.
C8Claim == [][inflight' = inflight + 1 => frameSession = session]_vars

\* C9 (as claimed): while the session is inactive no frame is stored.
C9Claim == ~camera_active => frame = NoFrame

\* C10 (as claimed): when the script has come to rest after Stop was pressed
\* during the read loop, the handle of that loop has been released and the
\* status shown is "stopped".
C10Claim ==
    (pc = "idle" /\ stoppedInLoop)
        => (status = "stopped" /\ ~orphan)

\* C11 (as claimed): an upload call never carries the public_id of the
\* upload call before it.
C11Claim ==
    [][(inflight' = inflight + 1 /\ public_id # <<>>)
          => public_id' # public_id]_vars

\* C12 (as claimed): servicing a capture, from the click to the end of its
\* handler, leaves camera_active, the stored frame, the failure count and
\* the session's URL as they were, and the session is still active when
\* the script resumes after the handler.
C12Claim ==
    [][/\ ((captures' = captures + 1 \/ pc = "capturing")
             => /\ camera_active' = camera_active
                /\ frame' = frame
                /\ frame_count' = frame_count
                /\ working_url' = working_url)
       /\ ((resuming' /\ camera_active) => camera_active')]_vars

\* C13 (as claimed): a capture that has entered the handler leaves it only
\* with a terminal result: the failure message shown, or the success message
\* shown, or the returned URL recorded in last_url.
C13Claim ==
    [][(pc \in InHandler /\ pc' \notin InHandler)
          => \/ notice' \in {"uploaded", "upload_failed"}
             \/ (reply \in RemoteUrls /\ last_url' = reply)]_vars

\* C15 (as claimed): no handle of an earlier run is still open while the
\* current run holds an open handle.
C15Claim == ~(orphan /\ cap = "open")

\* C16: the stored frame is written only by the read loop, as a whole value
\* (the frame the read returned); the payload of a capture is the encoding
\* of the frame that was stored when the click was serviced; and while the
\* upload call is in progress neither the stored frame nor the payload
\* changes.
C16Theorem ==
    [][/\ (frame' # frame
             => (pc = "loop" /\ pc' = "show" /\ frame' = fr' /\ fr' = decoded'))
       /\ (inflight' = inflight + 1
             => (lastPayload' = Encode(frame) /\ lastPayload'.img = frame
                 /\ frame' = frame /\ frame \in 1..decoded))
       /\ (pc = "capturing"
             => (frame' = frame /\ lastPayload' = lastPayload
                 /\ lastPayload = Encode(frame)))]_vars

\* The second frame was stored, the click arrived before it was shown, and
\* its encoding is the payload of the upload call in progress.
C16Witness ==
    pc = "capturing" /\ frame = 2 /\ lastPayload = Encode(2) /\ captures = 1

\* C17: the reconnect branch is entered exactly by the failed read that
\* takes the count past Threshold (to Threshold + 1); in it the old handle
\* has been released when the source is opened again, the source is opened
\* again from the URL of the first open, the count is still Threshold + 1
\* until it is reset to 0 as the last step before the loop continues, and
\* the session is active all along, whether or not the handle opened.
C17Theorem ==
    /\ [](/\ (pc \in ReconnectBranch
                => (camera_active /\ frame_count = Threshold + 1))
          /\ (pc = "loop" => frame_count <= Threshold)
          /\ (pc = "reopen" => cap = "closed")
          /\ (pc = "reset" => (cap \in {"open", "closed"} /\ opened = url))
          /\ (pc \in InLoop => opened = url))
    /\ [][/\ ((pc = "loop" /\ frame_count' = frame_count + 1)
                => (pc' = "warn" <=> frame_count = Threshold))
          /\ ((pc = "reset" /\ pc' # "reset")
                => (pc' = "loop" /\ frame_count' = 0 /\ cap' = cap
                    /\ camera_active'))]_vars

\* A reconnect whose reopen did not succeed has completed: the count is
\* back at 0, the loop continues on the closed handle, the session is
\* active.
C17Witness ==
    /\ pc = "loop" /\ status = "retrying" /\ cap = "closed"
    /\ frame_count = 0 /\ camera_active /\ opened = url

\* C18 (as claimed): whenever the most recent read of the active session
\* succeeded, the status shown is "connected".
C18Claim == (pc = "show" /\ ret /\ camera_active) => status = "connected"

\* C19 (as claimed): every open of the source that run_camera makes, the
\* first of a run and each reconnect, is given the URL that Start stored.
C19Claim == pc \in ({"check"} \cup InLoop) => opened = working_url

\* C19 (amended): Start stores the URL it got from fixing the input; while
\* the session stays active the stored URL does not change, whatever is
\* typed into the input; and every open of the source that run_camera
\* makes, the first of a run and each reconnect, is given the result of
\* fixing the stored URL once more.
C19Amended ==
    /\ [](pc \in ({"check"} \cup InLoop)
            => /\ working_url # <<>>
               /\ opened = <<validate_and_fix_rtsp(working_url[1]).url>>
               /\ opened = url)
    /\ [][/\ (session' = session + 1
                => working_url' = <<validate_and_fix_rtsp(rtsp_input).url>>)
          /\ ((camera_active /\ camera_active')
                => working_url' = working_url)
          /\ ((pc = "reopen" /\ pc' = "reset")
                => opened' = <<validate_and_fix_rtsp(working_url[1]).url>>)
         ]_vars

\* The session was started from the malformed input, the input was then
\* changed, and a reconnect has just opened the source again: with the
\* stored URL fixed once more, not with the input.
C19Witness ==
    /\ pc = "reset" /\ camera_active
    /\ working_url = <<validate_and_fix_rtsp(MalformedUrl).url>>
    /\ rtsp_input = DefaultUrl
    /\ opened # working_url
====
